---- MODULE Spec2Model ----
(***************************************************************************)
(* Voice-capture subsystem of src/static/script_chat_survey.js.            *)
(*                                                                         *)
(* The file holds three DOMContentLoaded scripts, each with its own        *)
(* closure state:                                                          *)
(*   "live"    lines   1-229  live speech-to-text, no session id           *)
(*   "session" lines 231-458  live speech-to-text with speechSessionId     *)
(*   "pcm"     lines 460-728  PCM recording, WAV preview, /speech-chat     *)
(* The variable `variant` says which script drives the page; it is chosen  *)
(* in Init and never changes.  Every handler of a script is one action;    *)
(* an async handler is one action per run-to-completion segment (the code  *)
(* before an await, and the code after it).                                *)
(*                                                                         *)
(* Text is a sequence of one-character strings, bytes are 0..255, a float  *)
(* sample is an integer number of halves (3 stands for 1.5).               *)
(***************************************************************************)
EXTENDS Integers, Sequences, FiniteSets, TLC

\* ---------------------------------------------------------------- bounds
MaxSessions == 2      \* successful startRecording() calls in one behaviour
MaxToken == 5         \* largest value speechSessionId is let to reach
MaxChunks == 2        \* audio frames kept in pcmChunks
MaxSeconds == 1       \* largest value a seconds counter is let to reach
MaxFetch == 2         \* requests awaiting their response
MaxTranscript == 2    \* characters of liveTranscript
MaxResults == 1       \* entries of one recognizer result event
MaxSlice == 4         \* largest slice size uint8ToBase64 is compared under
MaxPass == 2          \* entries of one result event of the dictation run

\* ------------------------------------------------------ program constants
CHUNK_SIZE == 32768   \* 0x8000, uint8ToBase64
SAMPLE_RATE == 16000  \* createWavBlob(wavChunks, 16000)
INT16_SCALE == 32767  \* 0x7fff, onaudioprocess

\* ------------------------------------------------------------- text
RECURSIVE TrimStart(_)
TrimStart(s) ==
    IF s # <<>> /\ Head(s) = " " THEN TrimStart(Tail(s)) ELSE s

RECURSIVE TrimEnd(_)
TrimEnd(s) ==
    IF s # <<>> /\ s[Len(s)] = " " THEN TrimEnd(SubSeq(s, 1, Len(s) - 1)) ELSE s

\* String.prototype.trim
Trim(s) == TrimEnd(TrimStart(s))

\* ------------------------------------------------------------- bytes
Min(a, b) == IF a < b THEN a ELSE b
Max(a, b) == IF a > b THEN a ELSE b

\* a 32-bit field written most significant byte first
U32BE(n) ==
    << (n \div 16777216) % 256, (n \div 65536) % 256, (n \div 256) % 256, n % 256 >>

\* DataView.setUint32(offset, n, true)
U32LE(n) ==
    << n % 256, (n \div 256) % 256, (n \div 65536) % 256, (n \div 16777216) % 256 >>

\* DataView.setUint16(offset, n, true)
U16LE(n) == << n % 256, (n \div 256) % 256 >>

\* DataView.setInt16(offset, sample, true): two's complement, little-endian
I16LE(sample) == U16LE((sample + 65536) % 65536)

\* writeString(s): one byte per character code
CharCode(c) ==
    CASE c = "R" -> 82 [] c = "I" -> 73 [] c = "F" -> 70 [] c = "W" -> 87
      [] c = "A" -> 65 [] c = "V" -> 86 [] c = "E" -> 69 [] c = "f" -> 102
      [] c = "m" -> 109 [] c = "t" -> 116 [] c = " " -> 32 [] c = "d" -> 100
      [] c = "a" -> 97

RECURSIVE writeString(_)
writeString(s) ==
    IF s = <<>> THEN <<>> ELSE <<CharCode(Head(s))>> \o writeString(Tail(s))

\* truncation toward zero of num/den (den > 0): the Int16Array store
TruncDiv(num, den) ==
    IF num >= 0 THEN num \div den ELSE -((-num) \div den)

\* Math.max(-1, Math.min(1, x)) * 0x7fff stored into an Int16Array element;
\* x is given in halves
ToPcm16(x2) == TruncDiv(Max(-2, Min(2, x2)) * INT16_SCALE, 2)

\* the loop of onaudioprocess over one input frame
RECURSIVE FloatTo16BitPCM(_)
FloatTo16BitPCM(data) ==
    IF data = <<>> THEN <<>>
    ELSE <<ToPcm16(Head(data))>> \o FloatTo16BitPCM(Tail(data))

\* new Uint8Array(pcm16.buffer): the bytes of the Int16Array
RECURSIVE Int16Bytes(_)
Int16Bytes(pcm16) ==
    IF pcm16 = <<>> THEN <<>>
    ELSE I16LE(Head(pcm16)) \o Int16Bytes(Tail(pcm16))

\* chunks.reduce((a, b) => a + b.length, 0)
RECURSIVE TotalLength(_)
TotalLength(chunks) ==
    IF chunks = <<>> THEN 0 ELSE Len(Head(chunks)) + TotalLength(Tail(chunks))

\* a merge that writes each chunk in front of the ones before it
RECURSIVE MergeNewestFirst(_)
MergeNewestFirst(chunks) ==
    IF chunks = <<>> THEN <<>> ELSE MergeNewestFirst(Tail(chunks)) \o Head(chunks)

\* the forEach / merged.set(chunk, offset) loop of sendVoice
RECURSIVE Merge(_)
Merge(chunks) ==
    IF chunks = <<>> THEN <<>> ELSE Head(chunks) \o Merge(Tail(chunks))

\* the chunks.forEach(chunk => chunk.forEach(sample => setInt16 ...)) loop
RECURSIVE SampleBytes(_)
SampleBytes(chunks) ==
    IF chunks = <<>> THEN <<>>
    ELSE Int16Bytes(Head(chunks)) \o SampleBytes(Tail(chunks))

createWavBlob(chunks, sampleRate) ==
    LET bufferLength == TotalLength(chunks)
    IN  writeString(<<"R", "I", "F", "F">>)
        \o U32LE(36 + bufferLength * 2)
        \o writeString(<<"W", "A", "V", "E", "f", "m", "t", " ">>)
        \o U32LE(16)
        \o U16LE(1)
        \o U16LE(1)
        \o U32LE(sampleRate)
        \o U32LE(sampleRate * 2)
        \o U16LE(2)
        \o U16LE(16)
        \o writeString(<<"d", "a", "t", "a">>)
        \o U32LE(bufferLength * 2)
        \o SampleBytes(chunks)

\* ------------------------------------------------------------- base64
B64Alphabet ==
    << "A", "B", "C", "D", "E", "F", "G", "H", "I", "J", "K", "L", "M",
       "N", "O", "P", "Q", "R", "S", "T", "U", "V", "W", "X", "Y", "Z",
       "a", "b", "c", "d", "e", "f", "g", "h", "i", "j", "k", "l", "m",
       "n", "o", "p", "q", "r", "s", "t", "u", "v", "w", "x", "y", "z",
       "0", "1", "2", "3", "4", "5", "6", "7", "8", "9", "+", "/" >>

B64(n) == B64Alphabet[n + 1]

\* window.btoa over a string given by its character codes (all <= 255)
RECURSIVE btoa(_)
btoa(codes) ==
    IF codes = <<>> THEN <<>>
    ELSE IF Len(codes) = 1 THEN
        << B64(codes[1] \div 4), B64((codes[1] % 4) * 16), "=", "=" >>
    ELSE IF Len(codes) = 2 THEN
        << B64(codes[1] \div 4),
           B64((codes[1] % 4) * 16 + codes[2] \div 16),
           B64((codes[2] % 16) * 4), "=" >>
    ELSE
        << B64(codes[1] \div 4),
           B64((codes[1] % 4) * 16 + codes[2] \div 16),
           B64((codes[2] % 16) * 4 + codes[3] \div 64),
           B64(codes[3] % 64) >>
        \o btoa(SubSeq(codes, 4, Len(codes)))

\* u8Arr.subarray(begin, end), 0-based, end exclusive, clamped to the length
subarray(u8Arr, begin, end) == SubSeq(u8Arr, begin + 1, Min(end, Len(u8Arr)))

\* String.fromCharCode.apply(null, slice): one character per byte
fromCharCode(slice) == [i \in 1..Len(slice) |-> slice[i] % 65536]

\* a loop that stops before a last slice shorter than the slice size
RECURSIVE CharRunsWholeSlices(_, _, _, _)
CharRunsWholeSlices(u8Arr, size, index, result) ==
    IF index + size <= Len(u8Arr)
    THEN CharRunsWholeSlices(u8Arr, size, index + size,
             result \o fromCharCode(subarray(u8Arr, index, index + size)))
    ELSE result

\* the while loop of uint8ToBase64, for a slice size
RECURSIVE CharRuns(_, _, _, _)
CharRuns(u8Arr, size, index, result) ==
    IF index < Len(u8Arr)
    THEN CharRuns(u8Arr, size, index + size,
                  result \o fromCharCode(subarray(u8Arr, index, index + size)))
    ELSE result

uint8ToBase64(u8Arr) == btoa(CharRuns(u8Arr, CHUNK_SIZE, 0, <<>>))

\* ------------------------------------------------------------- state
VARIABLES
    variant,           \* which of the three scripts drives the page
    selectedMode,      \* "null" | "ask" | "survey"
    SpeechRecognition, \* TRUE iff window.SpeechRecognition exists
    sessions,          \* one record per successful startRecording(): the
                       \* closures it registered and the backend it opened
    isRecording,
    speechSessionId,
    liveRecognizer,    \* index into sessions, 0 for null
    recognizer,        \* index into sessions, 0 for null
    liveTranscript,
    userInput,         \* userInput.value
    recordingTime,     \* recordingTime.innerText
    voicePreview,      \* TRUE iff voicePreview.style.display = "block"
    processor,         \* index into sessions, 0 for undefined
    timer,             \* index into sessions, 0 for undefined
    seconds,
    pcmChunks,
    wavChunks,
    audioPlayback,     \* the bytes behind audioPlayback.src, <<>> for none
    pendingStarts,     \* startRecording() calls awaiting getUserMedia
    fetches,           \* requests awaiting their response
    last               \* the handler that ran last and how it ended

pageVars == << variant, selectedMode, SpeechRecognition >>
speechVars ==
    << isRecording, speechSessionId, liveRecognizer, recognizer,
       liveTranscript, userInput >>
pcmVars ==
    << processor, timer, seconds, pcmChunks, wavChunks, audioPlayback,
       pendingStarts >>
vars ==
    << variant, selectedMode, SpeechRecognition, sessions, isRecording,
       speechSessionId, liveRecognizer, recognizer, liveTranscript, userInput,
       recordingTime, voicePreview, processor, timer, seconds, pcmChunks,
       wavChunks, audioPlayback, pendingStarts, fetches, last >>

\* ------------------------------------------------------------- inputs
Modes == {"ask", "survey"}

\* event.results[i][0].transcript of the entries a result event reports
Transcripts == { <<"a">> }

ResultEntries == [transcript : Transcripts, isFinal : BOOLEAN]

\* event.results from event.resultIndex on
ResultEvents == UNION { [1..n -> ResultEntries] : n \in 1..MaxResults }

\* e.inputBuffer.getChannelData(0), in halves: 0.5, -1.5
Frames == { <<1, -3>> }

\* event.results from event.resultIndex on, for the run that follows one
\* dictation: events reporting several entries in one pass
PassEvents == UNION { [1..n -> ResultEntries] : n \in 1..MaxPass }

\* frames of three lengths for the run that follows one recording through its
\* encoders: none; 0.5, -1.5; 1.0, -0.5, 0.0
CaptureFrames == { <<>>, <<1, -3>>, <<2, -1, 0>> }

Outcomes == {"ok", "reject", "badjson"}

\* --------------------------------------------------- session closures
\* new SpeechRecognition() / createScriptProcessor + setInterval of one
\* startRecording(): the backend delivers callbacks while "open" and, the
\* teardown being asynchronous, while "stopping"; an interval ticks while
\* "running".  `finals` is the text of the results the recognizer has
\* marked final in the events its session has processed (event.results
\* below event.resultIndex and the final entries delivered since).
NewSession(token) ==
    [token |-> token, backend |-> "open", interval |-> "running", seconds |-> 0,
     finals |-> <<>>]

\* recognizer.stop() / recognizer.abort() / processor.disconnect() on
\* sessions[i]: a close request
RequestClose(ss, i) ==
    IF i \in DOMAIN ss /\ ss[i].backend = "open"
    THEN [ss EXCEPT ![i].backend = "stopping"]
    ELSE ss

\* recognizer.abort() on sessions[i]: a close request that drops the results
\* recognized so far
Abort(ss, i) ==
    IF i \in DOMAIN ss
    THEN [RequestClose(ss, i) EXCEPT ![i].finals = <<>>]
    ELSE ss

\* clearInterval(handle of sessions[i])
ClearInterval(ss, i) ==
    IF i \in DOMAIN ss THEN [ss EXCEPT ![i].interval = "cleared"] ELSE ss

Delivering(s) == s.backend \in {"open", "stopping"}

\* what `last` holds: the handler, how it ended, and for a callback the
\* session whose closure it is (0 otherwise)
Did(op, res, i) == [op |-> op, res |-> res, session |-> i]

RemoveAt(q, k) == SubSeq(q, 1, k - 1) \o SubSeq(q, k + 1, Len(q))

Init ==
    /\ variant \in {"live", "session", "pcm"}
    /\ selectedMode = "null"
    /\ SpeechRecognition \in BOOLEAN
    /\ sessions = <<>>
    /\ isRecording = FALSE
    /\ speechSessionId = IF variant = "session" THEN 1 ELSE 0
    /\ liveRecognizer = 0
    /\ recognizer = 0
    /\ liveTranscript = <<>>
    /\ userInput = <<>>
    /\ recordingTime = 0
    /\ voicePreview = FALSE
    /\ processor = 0
    /\ timer = 0
    /\ seconds = 0
    /\ pcmChunks = <<>>
    /\ wavChunks = <<>>
    /\ audioPlayback = <<>>
    /\ pendingStarts = 0
    /\ fetches = <<>>
    /\ last = Did("resetChat", "ok", 0)

\* ======================================================= "live" script
\* lines 49-56
LiveResetChat ==
    /\ variant = "live"
    /\ selectedMode' = "null"
    /\ userInput' = <<>>
    /\ last' = Did("resetChat", "ok", 0)
    /\ UNCHANGED << variant, SpeechRecognition, sessions, isRecording,
                    speechSessionId, liveRecognizer, recognizer,
                    liveTranscript, recordingTime, voicePreview, pcmVars,
                    fetches >>

\* lines 58-70
LiveHandleSelection(mode) ==
    /\ variant = "live"
    /\ selectedMode' = mode
    /\ last' = Did("handleSelection", "ok", 0)
    /\ UNCHANGED << variant, SpeechRecognition, sessions, speechVars,
                    recordingTime, voicePreview, pcmVars, fetches >>

\* lines 75-83: the handler up to its fetch; the request of the text chat
\* and its response (lines 84-95) touch the chat transcript only
LiveSendChat ==
    /\ variant = "live"
    /\ IF selectedMode # "ask" \/ Trim(userInput) = <<>>
       THEN /\ last' = Did("sendChat", "return", 0)
            /\ UNCHANGED << userInput, fetches >>
       ELSE /\ userInput' = <<>>
            /\ UNCHANGED fetches
            /\ last' = Did("sendChat", "ok", 0)
    /\ UNCHANGED << pageVars, sessions, isRecording, speechSessionId,
                    liveRecognizer, recognizer, liveTranscript, recordingTime,
                    voicePreview, pcmVars >>

\* a start without the mode test of lines 104-107
LiveStartRefusalNoModeTest ==
    IF isRecording THEN "return"
    ELSE IF ~SpeechRecognition THEN "unsupported"
    ELSE "ok"

\* lines 102-112: the early returns of startRecording(), "ok" for none
LiveStartRefusal ==
    IF isRecording THEN "return"
    ELSE IF selectedMode # "ask" THEN "mode"
    ELSE IF ~SpeechRecognition THEN "unsupported"
    ELSE "ok"

\* lines 101-158
LiveStartRecording ==
    /\ variant = "live"
    /\ IF LiveStartRefusal # "ok" THEN
            /\ last' = Did("startRecording", LiveStartRefusal, 0)
            /\ UNCHANGED << sessions, isRecording, liveRecognizer,
                            liveTranscript, recordingTime, voicePreview >>
       ELSE /\ Len(sessions) < MaxSessions
            /\ sessions' = Append(sessions, NewSession(0))
            /\ liveRecognizer' = Len(sessions) + 1
            /\ liveTranscript' = <<>>
            /\ isRecording' = TRUE
            /\ voicePreview' = FALSE
            /\ recordingTime' = 0
            /\ last' = Did("startRecording", "ok", 0)
    /\ UNCHANGED << pageVars, speechSessionId, recognizer, userInput, pcmVars,
                    fetches >>

\* lines 160-177, on the state given
LiveStop(ss, rec) ==
    IF ~isRecording
    THEN /\ UNCHANGED << isRecording, liveRecognizer, userInput, voicePreview >>
         /\ sessions' = ss
    ELSE /\ isRecording' = FALSE
         /\ sessions' = RequestClose(ss, rec)
         /\ liveRecognizer' = 0
         /\ userInput' = IF liveTranscript # <<>> THEN Trim(liveTranscript)
                         ELSE userInput
         /\ voicePreview' = TRUE

\* lines 160-177
LiveStopRecording ==
    /\ variant = "live"
    /\ LiveStop(sessions, liveRecognizer)
    /\ last' = Did("stopRecording", IF isRecording THEN "ok" ELSE "return", 0)
    /\ UNCHANGED << pageVars, speechSessionId, recognizer, liveTranscript,
                    recordingTime, pcmVars, fetches >>

\* finalText of lines 135-144
RECURSIVE FinalText(_)
FinalText(results) ==
    IF results = <<>> THEN <<>>
    ELSE (IF Head(results).isFinal THEN Head(results).transcript \o <<" ">>
          ELSE <<>>) \o FinalText(Tail(results))

\* interim of lines 134-144
RECURSIVE Interim(_)
Interim(results) ==
    IF results = <<>> THEN <<>>
    ELSE (IF Head(results).isFinal THEN <<>> ELSE Head(results).transcript)
         \o Interim(Tail(results))

\* lines 133-150: liveRecognizer.onresult of sessions[i]
LiveOnResult(i, event) ==
    /\ variant = "live"
    /\ i \in DOMAIN sessions
    /\ Delivering(sessions[i])
    /\ Len(liveTranscript) + Len(FinalText(event)) <= MaxTranscript
    /\ liveTranscript' = liveTranscript \o FinalText(event)
    /\ userInput' = Trim(liveTranscript' \o Interim(event))
    /\ last' = Did("onresult", "ok", i)
    /\ UNCHANGED << pageVars, sessions, isRecording, speechSessionId,
                    liveRecognizer, recognizer, recordingTime, voicePreview,
                    pcmVars, fetches >>

\* lines 152-155: liveRecognizer.onerror of sessions[i]; the recognizer that
\* reported the error has ended
LiveOnError(i) ==
    /\ variant = "live"
    /\ i \in DOMAIN sessions
    /\ Delivering(sessions[i])
    /\ LiveStop([sessions EXCEPT ![i].backend = "closed"], liveRecognizer)
    /\ last' = Did("onerror", "ok", i)
    /\ UNCHANGED << pageVars, speechSessionId, recognizer, liveTranscript,
                    recordingTime, pcmVars, fetches >>

\* lines 127-131: the interval of sessions[i]
LiveTick(i) ==
    /\ variant = "live"
    /\ i \in DOMAIN sessions
    /\ sessions[i].interval = "running"
    /\ IF ~isRecording
       THEN /\ sessions' = ClearInterval(sessions, i)
            /\ UNCHANGED recordingTime
       ELSE /\ sessions[i].seconds < MaxSeconds
            /\ sessions' = [sessions EXCEPT ![i].seconds = @ + 1]
            /\ recordingTime' = sessions[i].seconds + 1
    /\ last' = Did("tick", IF sessions'[i].interval = "cleared" THEN "cleared" ELSE "ok", i)
    /\ UNCHANGED << pageVars, speechVars, voicePreview, pcmVars, fetches >>

\* lines 179-183
LiveDiscardRecording ==
    /\ variant = "live"
    /\ liveTranscript' = <<>>
    /\ userInput' = <<>>
    /\ voicePreview' = FALSE
    /\ last' = Did("discardRecording", "ok", 0)
    /\ UNCHANGED << pageVars, sessions, isRecording, speechSessionId,
                    liveRecognizer, recognizer, recordingTime, pcmVars,
                    fetches >>

\* lines 188-204, up to the await of fetch
LiveSendVoice ==
    /\ variant = "live"
    /\ IF Trim(userInput) = <<>>
       THEN /\ last' = Did("sendVoice", "empty", 0)
            /\ UNCHANGED fetches
       ELSE /\ Len(fetches) < MaxFetch
            /\ fetches' = Append(fetches,
                   [url |-> "/ask", body |-> Trim(userInput), by |-> "sendVoice"])
            /\ last' = Did("sendVoice", "ok", 0)
    /\ UNCHANGED << pageVars, sessions, speechVars, recordingTime,
                    voicePreview, pcmVars >>

\* lines 205-212 and 90-95: the response of fetches[k] arrives
LiveFetchDone(k, outcome) ==
    /\ variant = "live"
    /\ k \in DOMAIN fetches
    /\ fetches' = RemoveAt(fetches, k)
    /\ IF fetches[k].by = "sendVoice"
       THEN /\ liveTranscript' = <<>>
            /\ userInput' = <<>>
            /\ voicePreview' = FALSE
       ELSE UNCHANGED << liveTranscript, userInput, voicePreview >>
    /\ last' = Did("sendVoice.then", outcome, 0)
    /\ UNCHANGED << pageVars, sessions, isRecording, speechSessionId,
                    liveRecognizer, recognizer, recordingTime, pcmVars >>

\* the backend of sessions[i] completes a requested close
BackendClosed(i) ==
    /\ i \in DOMAIN sessions
    /\ sessions[i].backend = "stopping"
    /\ sessions' = [sessions EXCEPT ![i].backend = "closed"]
    /\ last' = Did("closed", "ok", i)
    /\ UNCHANGED << pageVars, speechVars, recordingTime, voicePreview, pcmVars,
                    fetches >>

\* ==================================================== "session" script
\* a reset that leaves speechSessionId as it is
resetSpeechStateKeepToken(ss) ==
    /\ speechSessionId' = speechSessionId
    /\ isRecording' = FALSE
    /\ sessions' = Abort(ss, recognizer)
    /\ recognizer' = 0
    /\ voicePreview' = FALSE
    /\ userInput' = <<>>

\* lines 287-301, on the sessions given
resetSpeechState(ss) ==
    /\ speechSessionId' = speechSessionId + 1
    /\ isRecording' = FALSE
    /\ sessions' = Abort(ss, recognizer)
    /\ recognizer' = 0
    /\ voicePreview' = FALSE
    /\ userInput' = <<>>

\* lines 303-310
SessionResetChat ==
    /\ variant = "session"
    /\ speechSessionId < MaxToken
    /\ resetSpeechState(sessions)
    /\ selectedMode' = "null"
    /\ last' = Did("resetChat", "ok", 0)
    /\ UNCHANGED << variant, SpeechRecognition, liveRecognizer, liveTranscript,
                    recordingTime, pcmVars, fetches >>

\* lines 312-325
SessionHandleSelection(mode) ==
    /\ variant = "session"
    /\ speechSessionId < MaxToken
    /\ resetSpeechState(sessions)
    /\ selectedMode' = mode
    /\ last' = Did("handleSelection", "ok", 0)
    /\ UNCHANGED << variant, SpeechRecognition, liveRecognizer, liveTranscript,
                    recordingTime, pcmVars, fetches >>

\* lines 330-337: the handler up to its fetch; the request of the text chat
\* and its response (lines 339-349) touch the chat transcript only
SessionSendChat ==
    /\ variant = "session"
    /\ IF selectedMode # "ask" \/ Trim(userInput) = <<>>
       THEN /\ last' = Did("sendChat", "return", 0)
            /\ UNCHANGED << sessions, isRecording, speechSessionId, recognizer,
                            userInput, voicePreview, fetches >>
       ELSE /\ speechSessionId < MaxToken
            /\ resetSpeechState(sessions)
            /\ UNCHANGED fetches
            /\ last' = Did("sendChat", "ok", 0)
    /\ UNCHANGED << pageVars, liveRecognizer, liveTranscript, recordingTime,
                    pcmVars >>

\* a start without the isRecording test of line 356
SessionStartRefusalNoRecordingTest ==
    IF selectedMode # "ask" THEN "mode"
    ELSE IF ~SpeechRecognition THEN "unsupported"
    ELSE "ok"

\* lines 356-366: the early returns of startRecording(), "ok" for none
SessionStartRefusal ==
    IF isRecording THEN "return"
    ELSE IF selectedMode # "ask" THEN "mode"
    ELSE IF ~SpeechRecognition THEN "unsupported"
    ELSE "ok"

\* lines 355-405
SessionStartRecording ==
    /\ variant = "session"
    /\ IF SessionStartRefusal # "ok" THEN
            /\ last' = Did("startRecording", SessionStartRefusal, 0)
            /\ UNCHANGED << sessions, isRecording, speechSessionId, recognizer,
                            userInput, recordingTime, voicePreview >>
       ELSE /\ Len(sessions) < MaxSessions
            /\ speechSessionId < MaxToken
            /\ speechSessionId' = speechSessionId + 1
            /\ isRecording' = TRUE
            /\ sessions' = Append(Abort(sessions, recognizer),
                                  NewSession(speechSessionId + 1))
            /\ recognizer' = Len(sessions) + 1
            /\ voicePreview' = FALSE
            /\ userInput' = <<>>
            /\ recordingTime' = 0
            /\ last' = Did("startRecording", "ok", 0)
    /\ UNCHANGED << pageVars, liveRecognizer, liveTranscript, pcmVars, fetches >>

\* lines 407-417
SessionStopRecording ==
    /\ variant = "session"
    /\ IF ~isRecording
       THEN /\ last' = Did("stopRecording", "return", 0)
            /\ UNCHANGED << sessions, isRecording, voicePreview >>
       ELSE /\ isRecording' = FALSE
            /\ sessions' = RequestClose(sessions, recognizer)
            /\ voicePreview' = TRUE
            /\ last' = Did("stopRecording", "ok", 0)
    /\ UNCHANGED << pageVars, speechSessionId, liveRecognizer, recognizer,
                    liveTranscript, userInput, recordingTime, pcmVars, fetches >>

\* the transcripts of the entries of an event that results[i].isFinal marks
RECURSIVE FinalTranscripts(_)
FinalTranscripts(results) ==
    IF results = <<>> THEN <<>>
    ELSE (IF Head(results).isFinal THEN Head(results).transcript ELSE <<>>)
         \o FinalTranscripts(Tail(results))

\* the recognizer of sessions[i] delivers an event to its session: its final
\* entries join the results finalized so far.  Kept for this script, whose
\* handler keeps no text of its own between events (the first script has
\* liveTranscript); an event the handler drops as stale is not recorded, no
\* later event of that session being processed.
Finalize(ss, i, event) ==
    [ss EXCEPT ![i].finals = @ \o FinalTranscripts(event)]

\* text of lines 394-397
RECURSIVE ResultText(_)
ResultText(results) ==
    IF results = <<>> THEN <<>>
    ELSE Head(results).transcript \o ResultText(Tail(results))

\* lines 391-399: recognizer.onresult of sessions[i]
SessionOnResult(i, event) ==
    /\ variant = "session"
    /\ i \in DOMAIN sessions
    /\ Delivering(sessions[i])
    /\ IF ~isRecording \/ sessions[i].token # speechSessionId
       THEN /\ last' = Did("onresult", "stale", i)
            /\ UNCHANGED << sessions, userInput >>
       ELSE /\ Len(sessions[i].finals) + Len(FinalTranscripts(event))
                   <= MaxTranscript
            /\ sessions' = Finalize(sessions, i, event)
            /\ userInput' = Trim(ResultText(event))
            /\ last' = Did("onresult", "ok", i)
    /\ UNCHANGED << pageVars, isRecording, speechSessionId,
                    liveRecognizer, recognizer, liveTranscript, recordingTime,
                    voicePreview, pcmVars, fetches >>

\* line 401: recognizer.onerror of sessions[i]; the recognizer that reported
\* the error has ended
SessionOnError(i) ==
    /\ variant = "session"
    /\ i \in DOMAIN sessions
    /\ Delivering(sessions[i])
    /\ speechSessionId < MaxToken
    /\ resetSpeechState([sessions EXCEPT ![i].backend = "closed"])
    /\ last' = Did("onerror", "ok", i)
    /\ UNCHANGED << pageVars, liveRecognizer, liveTranscript, recordingTime,
                    pcmVars, fetches >>

\* lines 382-389: the interval of sessions[i]
SessionTick(i) ==
    /\ variant = "session"
    /\ i \in DOMAIN sessions
    /\ sessions[i].interval = "running"
    /\ IF ~isRecording \/ sessions[i].token # speechSessionId
       THEN /\ sessions' = ClearInterval(sessions, i)
            /\ UNCHANGED recordingTime
       ELSE /\ sessions[i].seconds < MaxSeconds
            /\ sessions' = [sessions EXCEPT ![i].seconds = @ + 1]
            /\ recordingTime' = sessions[i].seconds + 1
    /\ last' = Did("tick", IF sessions'[i].interval = "cleared" THEN "cleared" ELSE "ok", i)
    /\ UNCHANGED << pageVars, speechVars, voicePreview, pcmVars, fetches >>

\* line 451: discardVoiceBtn.onclick = resetSpeechState
SessionDiscard ==
    /\ variant = "session"
    /\ speechSessionId < MaxToken
    /\ resetSpeechState(sessions)
    /\ last' = Did("discardRecording", "ok", 0)
    /\ UNCHANGED << pageVars, liveRecognizer, liveTranscript, recordingTime,
                    pcmVars, fetches >>

\* the field's text taken without trim()
SessionFinalTextUntrimmed == userInput

\* line 422: finalText of sendVoice()
SessionFinalText == Trim(userInput)

\* lines 419-436, up to the await of fetch
SessionSendVoice ==
    /\ variant = "session"
    /\ IF SessionFinalText = <<>>
       THEN /\ last' = Did("sendVoice", "empty", 0)
            /\ UNCHANGED << sessions, isRecording, speechSessionId, recognizer,
                            userInput, voicePreview, fetches >>
       ELSE /\ Len(fetches) < MaxFetch
            /\ speechSessionId < MaxToken
            /\ resetSpeechState(sessions)
            /\ fetches' = Append(fetches,
                   [url |-> "/ask", body |-> SessionFinalText, by |-> "sendVoice"])
            /\ last' = Did("sendVoice", "ok", 0)
    /\ UNCHANGED << pageVars, liveRecognizer, liveTranscript, recordingTime,
                    pcmVars >>

\* lines 437-441 and 345-349: the response of fetches[k] arrives
SessionFetchDone(k, outcome) ==
    /\ variant = "session"
    /\ k \in DOMAIN fetches
    /\ fetches' = RemoveAt(fetches, k)
    /\ last' = Did("sendVoice.then", outcome, 0)
    /\ UNCHANGED << pageVars, sessions, speechVars, recordingTime,
                    voicePreview, pcmVars >>

\* ======================================================== "pcm" script
pcmOther ==
    << variant, SpeechRecognition, speechVars >>

\* lines 497-503
PcmResetChat ==
    /\ variant = "pcm"
    /\ selectedMode' = "null"
    /\ last' = Did("resetChat", "ok", 0)
    /\ UNCHANGED << pcmOther, sessions, recordingTime, voicePreview, pcmVars,
                    fetches >>

\* lines 505-516
PcmHandleSelection(mode) ==
    /\ variant = "pcm"
    /\ selectedMode' = mode
    /\ last' = Did("handleSelection", "ok", 0)
    /\ UNCHANGED << pcmOther, sessions, recordingTime, voicePreview, pcmVars,
                    fetches >>

\* lines 550-556, up to the await of getUserMedia
PcmStartRecording ==
    /\ variant = "pcm"
    /\ IF selectedMode # "ask"
       THEN /\ last' = Did("startRecording", "mode", 0)
            /\ UNCHANGED pendingStarts
       ELSE /\ Len(sessions) + pendingStarts < MaxSessions
            /\ pendingStarts' = pendingStarts + 1
            /\ last' = Did("startRecording", "await", 0)
    /\ UNCHANGED << pageVars, speechVars, sessions, recordingTime, voicePreview,
                    processor, timer, seconds, pcmChunks, wavChunks,
                    audioPlayback, fetches >>

\* line 556: getUserMedia rejects (no device, permission denied); the
\* handler ends there
PcmGetUserMediaRejected ==
    /\ variant = "pcm"
    /\ pendingStarts > 0
    /\ pendingStarts' = pendingStarts - 1
    /\ last' = Did("startRecording.then", "unsupported", 0)
    /\ UNCHANGED << pageVars, speechVars, sessions, recordingTime, voicePreview,
                    processor, timer, seconds, pcmChunks, wavChunks,
                    audioPlayback, fetches >>

\* lines 556-588: getUserMedia resolves and the handler runs to its end
PcmGetUserMediaResolved ==
    /\ variant = "pcm"
    /\ pendingStarts > 0
    /\ pendingStarts' = pendingStarts - 1
    /\ sessions' = Append(sessions, NewSession(0))
    /\ processor' = Len(sessions) + 1
    /\ timer' = Len(sessions) + 1
    /\ pcmChunks' = <<>>
    /\ wavChunks' = <<>>
    /\ seconds' = 0
    /\ voicePreview' = FALSE
    /\ last' = Did("startRecording.then", "ok", Len(sessions) + 1)
    /\ UNCHANGED << pageVars, speechVars, recordingTime, audioPlayback, fetches >>

\* lines 590-601; processor.disconnect() on undefined throws at line 594
PcmStopRecording ==
    /\ variant = "pcm"
    /\ IF processor = 0
       THEN /\ last' = Did("stopRecording", "TypeError", 0)
            /\ UNCHANGED << sessions, audioPlayback, voicePreview >>
       ELSE /\ sessions' = RequestClose(ClearInterval(sessions, timer), processor)
            /\ audioPlayback' = createWavBlob(wavChunks, SAMPLE_RATE)
            /\ voicePreview' = TRUE
            /\ last' = Did("stopRecording", "ok", 0)
    /\ UNCHANGED << pageVars, speechVars, recordingTime, processor, timer,
                    seconds, pcmChunks, wavChunks, pendingStarts, fetches >>

\* lines 574-584: processor.onaudioprocess of sessions[i]
PcmOnAudioProcess(i, data) ==
    /\ variant = "pcm"
    /\ i \in DOMAIN sessions
    /\ Delivering(sessions[i])
    /\ Len(pcmChunks) < MaxChunks
    /\ LET pcm16 == FloatTo16BitPCM(data)
       IN  /\ pcmChunks' = Append(pcmChunks, Int16Bytes(pcm16))
           /\ wavChunks' = Append(wavChunks, pcm16)
    /\ last' = Did("onaudioprocess", "ok", i)
    /\ UNCHANGED << pageVars, speechVars, sessions, recordingTime, voicePreview,
                    processor, timer, seconds, audioPlayback, pendingStarts,
                    fetches >>

\* lines 569-572: the interval of sessions[i]
PcmTick(i) ==
    /\ variant = "pcm"
    /\ i \in DOMAIN sessions
    /\ sessions[i].interval = "running"
    /\ seconds < MaxSeconds
    /\ seconds' = seconds + 1
    /\ recordingTime' = seconds + 1
    /\ last' = Did("tick", "ok", i)
    /\ UNCHANGED << pageVars, speechVars, sessions, voicePreview, processor,
                    timer, pcmChunks, wavChunks, audioPlayback, pendingStarts,
                    fetches >>

\* lines 603-607
PcmDiscardRecording ==
    /\ variant = "pcm"
    /\ voicePreview' = FALSE
    /\ pcmChunks' = <<>>
    /\ wavChunks' = <<>>
    /\ last' = Did("discardRecording", "ok", 0)
    /\ UNCHANGED << pageVars, speechVars, sessions, recordingTime, processor,
                    timer, seconds, audioPlayback, pendingStarts, fetches >>

\* lines 629-661, up to the await of fetch
PcmSendVoice ==
    /\ variant = "pcm"
    /\ IF Len(pcmChunks) = 0
       THEN /\ last' = Did("sendVoice", "empty", 0)
            /\ UNCHANGED fetches
       ELSE /\ Len(fetches) < MaxFetch
            /\ fetches' = Append(fetches,
                   [url |-> "/speech-chat",
                    body |-> uint8ToBase64(Merge(pcmChunks)),
                    by |-> "sendVoice"])
            /\ last' = Did("sendVoice", "ok", 0)
    /\ UNCHANGED << pageVars, speechVars, sessions, recordingTime, voicePreview,
                    pcmVars >>

\* lines 663-674: the response of fetches[k] arrives; the try block ends or
\* the catch block runs, and discardRecording() follows either
PcmFetchDone(k, outcome) ==
    /\ variant = "pcm"
    /\ k \in DOMAIN fetches
    /\ fetches' = RemoveAt(fetches, k)
    /\ voicePreview' = FALSE
    /\ pcmChunks' = <<>>
    /\ wavChunks' = <<>>
    /\ last' = Did("sendVoice.then", outcome, 0)
    /\ UNCHANGED << pageVars, speechVars, sessions, recordingTime, processor,
                    timer, seconds, audioPlayback, pendingStarts >>

\* the user edits the input field; of all edits the voice path tells apart
\* only a blank one, so that is the one drawn
TypeInput ==
    /\ variant \in {"live", "session"}
    /\ userInput = <<>>
    /\ userInput' = <<" ">>
    /\ last' = Did("input", "ok", 0)
    /\ UNCHANGED << pageVars, sessions, isRecording, speechSessionId,
                    liveRecognizer, recognizer, liveTranscript, recordingTime,
                    voicePreview, pcmVars, fetches >>

\* ============================================================== system
NextLive ==
    \/ LiveResetChat
    \/ \E mode \in Modes : LiveHandleSelection(mode)
    \/ LiveSendChat
    \/ LiveStartRecording
    \/ LiveStopRecording
    \/ \E i \in 1..MaxSessions, event \in ResultEvents : LiveOnResult(i, event)
    \/ \E i \in 1..MaxSessions : LiveOnError(i)
    \/ \E i \in 1..MaxSessions : LiveTick(i)
    \/ LiveDiscardRecording
    \/ LiveSendVoice
    \/ \E k \in 1..MaxFetch, outcome \in Outcomes : LiveFetchDone(k, outcome)
    \/ TypeInput

NextSession ==
    \/ SessionResetChat
    \/ \E mode \in Modes : SessionHandleSelection(mode)
    \/ SessionSendChat
    \/ SessionStartRecording
    \/ SessionStopRecording
    \/ \E i \in 1..MaxSessions, event \in ResultEvents : SessionOnResult(i, event)
    \/ \E i \in 1..MaxSessions : SessionOnError(i)
    \/ \E i \in 1..MaxSessions : SessionTick(i)
    \/ SessionDiscard
    \/ SessionSendVoice
    \/ \E k \in 1..MaxFetch, outcome \in Outcomes : SessionFetchDone(k, outcome)
    \/ TypeInput

NextPcm ==
    \/ PcmResetChat
    \/ \E mode \in Modes : PcmHandleSelection(mode)
    \/ PcmStartRecording
    \/ PcmGetUserMediaRejected
    \/ PcmGetUserMediaResolved
    \/ PcmStopRecording
    \/ \E i \in 1..MaxSessions, data \in Frames : PcmOnAudioProcess(i, data)
    \/ \E i \in 1..MaxSessions : PcmTick(i)
    \/ PcmDiscardRecording
    \/ PcmSendVoice
    \/ \E k \in 1..MaxFetch, outcome \in Outcomes : PcmFetchDone(k, outcome)

NextEnv == \E i \in 1..MaxSessions : BackendClosed(i)

Next == NextLive \/ NextSession \/ NextPcm \/ NextEnv

\* the page runs any one of the three scripts
Spec == Init /\ [][Next]_vars

\* the page runs the script with speechSessionId
InitSession == Init /\ variant = "session"
NextSessionPage == NextSession \/ NextEnv
SpecSession == InitSession /\ [][NextSessionPage]_vars

\* the page runs the PCM script
InitPcm == Init /\ variant = "pcm"
NextPcmPage == NextPcm \/ NextEnv
SpecPcm == InitPcm /\ [][NextPcmPage]_vars

\* the page runs the first script
InitLive == Init /\ variant = "live"
NextLivePage == NextLive \/ NextEnv
SpecLive == InitLive /\ [][NextLivePage]_vars

\* micBtn clicked with no recording started yet
CaptureStartRecording ==
    /\ sessions = <<>>
    /\ pendingStarts = 0
    /\ PcmStartRecording

\* sendVoiceBtn clicked with no request outstanding
CaptureSendVoice ==
    /\ fetches = <<>>
    /\ PcmSendVoice

\* the PCM script followed through its encoders: one recording and its
\* sending, the processor delivering frames of several lengths
NextCapture ==
    \/ \E mode \in Modes : PcmHandleSelection(mode)
    \/ CaptureStartRecording
    \/ PcmGetUserMediaResolved
    \/ PcmStopRecording
    \/ \E i \in 1..MaxSessions, data \in CaptureFrames : PcmOnAudioProcess(i, data)
    \/ CaptureSendVoice
    \/ \E k \in 1..MaxFetch, outcome \in Outcomes : PcmFetchDone(k, outcome)

SpecCapture == InitPcm /\ [][NextCapture]_vars

\* micBtn clicked with no recording started yet
DictationStartRecording ==
    /\ sessions = <<>>
    /\ LiveStartRecording

\* the first script followed through one dictation: its recognizer delivering
\* events of several entries
NextDictation ==
    \/ LiveResetChat
    \/ \E mode \in Modes : LiveHandleSelection(mode)
    \/ DictationStartRecording
    \/ LiveStopRecording
    \/ \E i \in 1..MaxSessions, event \in PassEvents : LiveOnResult(i, event)
    \/ LiveDiscardRecording
    \/ LiveSendVoice
    \/ \E k \in 1..MaxFetch, outcome \in Outcomes : LiveFetchDone(k, outcome)

SpecDictation == InitLive /\ [][NextDictation]_vars

\* ======================================================= derived state
\* a session is Recording: the script's flag, or for the PCM script (which
\* keeps no flag) the nodes `processor` refers to are connected
Recording ==
    IF variant = "pcm"
    THEN processor \in DOMAIN sessions /\ sessions[processor].backend = "open"
    ELSE isRecording

\* the capture backends no close was requested of
OpenBackends == { i \in DOMAIN sessions : sessions[i].backend = "open" }

\* sessions[i] has been superseded by a later successful startRecording()
Superseded(i) == i \in DOMAIN sessions /\ i < Len(sessions)

VoiceRequests == { k \in DOMAIN fetches : fetches[k].by = "sendVoice" }

\* the recording sendVoice() would send is empty
EmptyRecording ==
    IF variant = "pcm" THEN Len(pcmChunks) = 0 ELSE Trim(userInput) = <<>>

\* what a recording session consists of: flags, token, buffers, display,
\* backends and timers, requests
sessionState ==
    << sessions, isRecording, speechSessionId, liveRecognizer, recognizer,
       liveTranscript, userInput, recordingTime, voicePreview, processor, timer,
       seconds, pcmChunks, wavChunks, audioPlayback, fetches >>

\* ------------------------------------------------------------------ C1
\* C1 (token gate): once a session has been superseded by a later successful
\* startRecording(), a recognizer-result or audio-frame callback it registered
\* leaves the buffers (PCM chunks, transcript) and the displayed text unchanged.
C1_TokenGate ==
    [][ (last'.op \in {"onresult", "onaudioprocess"} /\ Superseded(last'.session))
        => UNCHANGED << pcmChunks, wavChunks, liveTranscript, userInput >> ]_vars

\* ------------------------------------------------------------------ C2
\* C2: an error callback of a superseded session is discarded: the session
\* that superseded it stays Recording, the token is not changed and the
\* displayed text is not cleared.
C2_StaleErrorDiscarded ==
    [][ (last'.op = "onerror" /\ Superseded(last'.session))
        => UNCHANGED << isRecording, speechSessionId, userInput >> ]_vars

\* ------------------------------------------------------------------ C3
\* C3: in every reachable state at most one capture backend is open.
C3_AtMostOneActive == Cardinality(OpenBackends) <= 1

\* ------------------------------------------------------------------ C4
\* C4 as stated: startRecording() of the session-id script, called in mode
\* "ask" with recognition supported while the session is already Recording,
\* increments the token and leaves a fresh Recording session with cleared text.
C4_ReentrantStartResets ==
    [][ (variant = "session" /\ last'.op = "startRecording" /\ isRecording
         /\ selectedMode = "ask" /\ SpeechRecognition)
        => (/\ speechSessionId' = speechSessionId + 1
            /\ isRecording'
            /\ userInput' = <<>>) ]_vars

\* C4 as amended: startRecording() of the session-id script, called in mode
\* "ask" with recognition supported, forces the hard reset only when the
\* session is not Recording: it then increments the token, requests the close
\* of the previous recognizer and leaves a fresh Recording session (new open
\* recognizer holding the new token, text cleared, preview hidden, time 0);
\* called while already Recording it changes nothing.
C4_StartResetsUnlessRecording ==
    [][ (variant = "session" /\ last'.op = "startRecording"
         /\ selectedMode = "ask" /\ SpeechRecognition)
        => IF isRecording
           THEN UNCHANGED sessionState
           ELSE /\ speechSessionId' = speechSessionId + 1
                /\ isRecording'
                /\ userInput' = <<>>
                /\ ~voicePreview'
                /\ recordingTime' = 0
                /\ recognizer' = Len(sessions) + 1
                /\ Len(sessions') = Len(sessions) + 1
                /\ sessions'[recognizer'].backend = "open"
                /\ sessions'[recognizer'].token = speechSessionId'
                /\ OpenBackends' = {recognizer'} ]_vars

\* a second session started from the preview of the first
C4_Witness ==
    /\ variant = "session"
    /\ last = Did("startRecording", "ok", 0)
    /\ Len(sessions) = 2
    /\ sessions[1].backend = "stopping"
    /\ isRecording

\* ------------------------------------------------------------------ C5
\* the step is a startRecording() that fails: called outside mode "ask", or
\* with the recognition backend missing, or its getUserMedia rejected
FailedStart ==
    \/ /\ last'.op = "startRecording"
       /\ \/ selectedMode # "ask"
          \/ variant \in {"live", "session"} /\ ~SpeechRecognition
    \/ last' = Did("startRecording.then", "unsupported", 0)

\* C5: a failed startRecording() leaves the session state, the token, the
\* buffers and transcript, the open backends and the timers as they were.
C5_FailedStartChangesNothing == [][ FailedStart => UNCHANGED sessionState ]_vars

\* a start refused for the mode while a recording with audio is in progress
C5_Witness ==
    /\ variant = "pcm"
    /\ last = Did("startRecording", "mode", 0)
    /\ pcmChunks # <<>>
    /\ OpenBackends # {}

\* ------------------------------------------------------------------ C6
\* C6: sendVoice() on an empty recording (no PCM chunk, or an empty or
\* whitespace-only transcript) issues no request and leaves the session state
\* unchanged.
C6_EmptySendNoRequest ==
    [][ (last'.op = "sendVoice" /\ EmptyRecording)
        => UNCHANGED << sessionState, pendingStarts >> ]_vars

\* a send refused on a whitespace-only transcript while Recording
C6_Witness ==
    /\ variant = "session"
    /\ last = Did("sendVoice", "empty", 0)
    /\ userInput = <<" ">>
    /\ isRecording

\* ------------------------------------------------------------------ C7
\* C7: a sendVoice() invoked while an earlier sendVoice() still awaits its
\* response is refused: it issues no request.
C7_SendRefusedWhileSending ==
    [][ (last'.op = "sendVoice" /\ VoiceRequests # {}) => fetches' = fetches ]_vars

\* ------------------------------------------------------------------ C8
\* C8: when the response of a sendVoice() request arrives (success, rejection
\* or unparseable body) the handler ends with the session Idle (not Recording,
\* no preview) and the recording buffers cleared.
C8_SendEndsIdleAndCleared ==
    [][ last'.op = "sendVoice.then"
        => (/\ ~Recording'
            /\ ~voicePreview'
            /\ pcmChunks' = <<>> /\ wavChunks' = <<>>
            /\ Trim(userInput') = <<>>) ]_vars

\* ------------------------------------------------------------------ C9
\* C9: while the PCM session is Recording, every step other than a start or
\* a stop leaves pcmChunks unchanged or appends one chunk at its end.
C9_AppendOnlyWhileRecording ==
    [][ (variant = "pcm" /\ Recording
         /\ last'.op \notin {"startRecording.then", "stopRecording"})
        => \/ pcmChunks' = pcmChunks
           \/ /\ Len(pcmChunks') = Len(pcmChunks) + 1
              /\ SubSeq(pcmChunks', 1, Len(pcmChunks)) = pcmChunks ]_vars

\* ------------------------------------------------------------------ C10
\* C10: once the PCM session has left Recording (stopRecording() requested the
\* close), an audio-frame callback changes neither pcmChunks nor wavChunks.
C10_FrozenAfterStop ==
    [][ (last'.op = "onaudioprocess" /\ ~Recording /\ voicePreview)
        => UNCHANGED << pcmChunks, wavChunks >> ]_vars

\* ------------------------------------------------------------------ C11
\* the intervals whose next tick would advance the displayed recording time
AdvancingIntervals ==
    { i \in DOMAIN sessions :
        /\ sessions[i].interval = "running"
        /\ CASE variant = "live" -> isRecording
             [] variant = "session" ->
                    isRecording /\ sessions[i].token = speechSessionId
             [] OTHER -> TRUE }

\* the step is a cancel: a discard, or an error callback of the session that
\* no later start has superseded
CancelStep ==
    \/ last'.op = "discardRecording"
    \/ last'.op = "onerror" /\ ~Superseded(last'.session)

\* C11: a cancel (discard, or a backend error of the current session) taken
\* while Recording or while the preview is shown leaves the session Idle: not
\* Recording, no preview, the PCM buffers, the transcript and the displayed
\* text empty, and no interval advancing the displayed time.
C11_CancelLeavesIdle ==
    [][ (CancelStep /\ (Recording \/ voicePreview))
        => (/\ ~Recording'
            /\ ~voicePreview'
            /\ pcmChunks' = <<>> /\ wavChunks' = <<>>
            /\ liveTranscript' = <<>>
            /\ userInput' = <<>>
            /\ AdvancingIntervals' = {}) ]_vars

\* ------------------------------------------------------------------ C12
\* the AudioContext objects still open: line 557 creates one per recording and
\* no line of the script closes it
OpenContexts == IF variant = "pcm" THEN DOMAIN sessions ELSE {}

\* C12: in every reachable state where the session is not Recording, no
\* capture resource a startRecording() acquired (stream and processing node,
\* recognizer, audio context) is still open.
C12_ResourcesReleased == ~Recording => (OpenBackends \cup OpenContexts) = {}

\* ------------------------------------------------------------------ C13
\* C13: stopRecording() and the cancel operation never end in an exception,
\* in any reachable state (before any start, twice in a row).
C13_CloseNeverRaises ==
    last.op \in {"stopRecording", "discardRecording"} => last.res # "TypeError"

\* ------------------------------------------------------------------ C14
\* the elements of the chunks, chunk after chunk in the order of the sequence
RECURSIVE Concatenation(_)
Concatenation(chunks) ==
    IF chunks = <<>> THEN <<>> ELSE Head(chunks) \o Concatenation(Tail(chunks))

\* the unsigned 32-bit little-endian field at a 0-based offset
ReadU32LE(bytes, offset) ==
    bytes[offset + 1] + 256 * bytes[offset + 2] + 65536 * bytes[offset + 3]
        + 16777216 * bytes[offset + 4]

\* the signed 16-bit little-endian samples a byte sequence holds
RECURSIVE DecodeI16LE(_)
DecodeI16LE(bytes) ==
    IF Len(bytes) < 2 THEN <<>>
    ELSE LET u == bytes[1] + 256 * bytes[2]
         IN  << IF u >= 32768 THEN u - 65536 ELSE u >>
             \o DecodeI16LE(SubSeq(bytes, 3, Len(bytes)))

\* standard Base64 decoding (RFC 4648, with padding)
B64Value(c) == CHOOSE n \in 0..63 : B64(n) = c

RECURSIVE Base64Decode(_)
Base64Decode(chars) ==
    IF Len(chars) < 4 THEN <<>>
    ELSE LET v1 == B64Value(chars[1])
             v2 == B64Value(chars[2])
             b1 == v1 * 4 + v2 \div 16
             group ==
                 IF chars[3] = "=" THEN << b1 >>
                 ELSE LET v3 == B64Value(chars[3])
                          b2 == (v2 % 16) * 16 + v3 \div 4
                      IN  IF chars[4] = "=" THEN << b1, b2 >>
                          ELSE << b1, b2, (v3 % 4) * 64 + B64Value(chars[4]) >>
         IN  group \o Base64Decode(SubSeq(chars, 5, Len(chars)))

\* the sample data of a WAV file: what follows its 44-byte header
WavData(wav) == SubSeq(wav, 45, Len(wav))

\* C14: in a run start -> n audio frames -> stop -> send, every frame is
\* appended behind the ones before it; the WAV preview built at stop has
\* 2 * (total sample count) data bytes holding the samples in arrival order;
\* and the payload a send directly after the stop builds decodes to those same
\* bytes (for n = 0 the send builds none).
C14_PreviewAndPayloadAgree ==
    [][ /\ (last'.op = "onaudioprocess"
             => /\ Len(wavChunks') = Len(wavChunks) + 1
                /\ Len(pcmChunks') = Len(pcmChunks) + 1
                /\ SubSeq(wavChunks', 1, Len(wavChunks)) = wavChunks
                /\ SubSeq(pcmChunks', 1, Len(pcmChunks)) = pcmChunks
                /\ DecodeI16LE(pcmChunks'[Len(pcmChunks')])
                       = wavChunks'[Len(wavChunks')])
        /\ (last' = Did("stopRecording", "ok", 0)
             => /\ Len(WavData(audioPlayback')) = 2 * Len(Concatenation(wavChunks))
                /\ DecodeI16LE(WavData(audioPlayback')) = Concatenation(wavChunks))
        /\ ((last = Did("stopRecording", "ok", 0) /\ last'.op = "sendVoice")
             => IF Len(pcmChunks) = 0
                THEN fetches' = fetches /\ WavData(audioPlayback) = <<>>
                ELSE /\ Len(fetches') = Len(fetches) + 1
                     /\ Base64Decode(fetches'[Len(fetches')].body)
                            = WavData(audioPlayback)) ]_vars

\* a recording of two different chunks, stopped and sent
C14_Witness ==
    /\ variant = "pcm"
    /\ last = Did("sendVoice", "ok", 0)
    /\ voicePreview
    /\ Len(pcmChunks) = 2
    /\ pcmChunks[1] # pcmChunks[2]
    /\ Len(pcmChunks[1]) > 0 /\ Len(pcmChunks[2]) > 0
    /\ Len(fetches) = 1
    /\ Base64Decode(fetches[1].body) = WavData(audioPlayback)

\* ------------------------------------------------------------------ C15
\* C15: the file createWavBlob() builds at stopRecording() is 44 + dataBytes
\* long, its ChunkSize field (bytes 4-7) is 36 + dataBytes and its
\* Subchunk2Size field (bytes 40-43) is dataBytes, dataBytes being twice the
\* total sample count (0 for no chunk); built again from the same chunks it
\* has the same bytes.
C15_WavHeaderSizes ==
    [][ last' = Did("stopRecording", "ok", 0)
        => LET dataBytes == 2 * Len(Concatenation(wavChunks))
           IN  /\ Len(audioPlayback') = 44 + dataBytes
               /\ ReadU32LE(audioPlayback', 4) = 36 + dataBytes
               /\ ReadU32LE(audioPlayback', 40) = dataBytes
               /\ (last = Did("stopRecording", "ok", 0)
                    => audioPlayback' = audioPlayback) ]_vars

\* a preview built from two chunks of different lengths
C15_Witness ==
    /\ variant = "pcm"
    /\ last = Did("stopRecording", "ok", 0)
    /\ Len(wavChunks) = 2
    /\ Len(wavChunks[1]) # Len(wavChunks[2])
    /\ Len(audioPlayback) = 44 + 2 * Len(Concatenation(wavChunks))

\* ------------------------------------------------------------------ C16
\* C16: for the buffer sendVoice() hands to uint8ToBase64(), the characters
\* assembled slice by slice are those of the whole buffer for every slice
\* size from 1 up, so the encoded text is the same for every slice size, and
\* standard Base64 decoding of it gives the buffer back.
C16_SliceSizeIndependent ==
    [][ last' = Did("sendVoice", "ok", 0)
        => LET u8Arr == Merge(pcmChunks)
               body == fetches'[Len(fetches')].body
           IN  /\ \A size \in 1..MaxSlice :
                    /\ CharRuns(u8Arr, size, 0, <<>>) = fromCharCode(u8Arr)
                    /\ btoa(CharRuns(u8Arr, size, 0, <<>>)) = body
               /\ body = uint8ToBase64(u8Arr)
               /\ Base64Decode(body) = u8Arr ]_vars

\* a buffer of 10 bytes sent: no multiple of 3 nor of a slice size above 2
C16_Witness ==
    /\ variant = "pcm"
    /\ last = Did("sendVoice", "ok", 0)
    /\ Len(Merge(pcmChunks)) = 10
    /\ Base64Decode(fetches[Len(fetches)].body) = Merge(pcmChunks)

\* ------------------------------------------------------------------ C17
\* C17: in the first script, from stopRecording() on (the stop itself, and a
\* result event arriving after it) the input field holds the committed text
\* liveTranscript, trimmed, and nothing of a non-final result: it is empty
\* when no final result was received.
C17_FrozenToCommitted ==
    [][ (/\ variant = "live"
         /\ \/ last' = Did("stopRecording", "ok", 0)
            \/ last'.op = "onresult" /\ ~isRecording)
        => userInput' = Trim(liveTranscript') ]_vars

\* ------------------------------------------------------------------ C18
\* a text without its spaces
NoSpaces(s) == SelectSeq(s, LAMBDA c : c # " ")

IsPrefix(p, s) == Len(p) <= Len(s) /\ SubSeq(s, 1, Len(p)) = p

\* C18: after a result event the handler has processed, the displayed text
\* starts (spacing apart) with the text of every result the recognizer of
\* that session has marked final so far.
C18_CommittedAppendOnly ==
    [][ (last'.op = "onresult" /\ last'.res = "ok")
        => IsPrefix(sessions'[last'.session].finals, NoSpaces(userInput')) ]_vars

\* ------------------------------------------------------------------ C19
\* the step runs resetSpeechState(): a successful start, a discard, a
\* recognizer error, resetChat, handleSelection, a chat or voice message sent
HardResetStep ==
    \/ last'.op \in {"discardRecording", "onerror", "resetChat", "handleSelection"}
    \/ last' \in { Did(op, "ok", 0) : op \in {"startRecording", "sendChat", "sendVoice"} }

\* the started sessions whose captured token is the live one
CurrentSessions ==
    { i \in DOMAIN sessions : sessions[i].token = speechSessionId }

\* C19: speechSessionId never decreases; it increases by one on every
\* successful startRecording() and on every step that runs
\* resetSpeechState(); at most one started session holds the live token.
C19_TokenMonotonic ==
    [][ /\ speechSessionId' >= speechSessionId
        /\ (HardResetStep => speechSessionId' = speechSessionId + 1)
        /\ Cardinality(CurrentSessions') <= 1 ]_vars

\* a second start: the new session holds the live token, the first one an
\* older token
C19_Witness ==
    /\ variant = "session"
    /\ last = Did("startRecording", "ok", 0)
    /\ Len(sessions) = 2
    /\ CurrentSessions = {2}
    /\ sessions[1].token < speechSessionId

\* ------------------------------------------------------------------ C20
\* C20: a tick of an interval whose session was superseded or has ended does
\* not change the displayed recording time, and at most one interval is
\* advancing the display.
C20_TimerOwnedByOneSession ==
    [][ /\ ((last'.op = "tick" /\ (Superseded(last'.session) \/ ~Recording))
             => recordingTime' = recordingTime)
        /\ Cardinality(AdvancingIntervals') <= 1 ]_vars

\* ------------------------------------------------------------------ C21
\* the last non-final entry of a pass over the entries of an event, none for
\* an event without one
RECURSIVE LastNonFinal(_)
LastNonFinal(results) ==
    IF results = <<>> THEN <<>>
    ELSE IF ~results[Len(results)].isFinal THEN results[Len(results)].transcript
    ELSE LastNonFinal(SubSeq(results, 1, Len(results) - 1))

\* C21: a result event leaves as displayed text the committed text followed
\* by the last non-final entry of that event alone (not by all of its
\* non-final entries, nor by what an earlier event left pending), trimmed.
C21_PendingIsLastNonFinal ==
    [][ (variant = "live" /\ last'.op = "onresult")
        => \E event \in PassEvents :
              /\ liveTranscript' = liveTranscript \o FinalText(event)
              /\ userInput' = Trim(liveTranscript' \o LastNonFinal(event)) ]_vars

\* ------------------------------------------------------------------ C22
\* C22: in every reachable state a session that is Recording is in chat mode
\* (selectedMode = "ask"); so a change of mode or a return home while
\* Recording ends the recording.
C22_RecordingOnlyInAskMode == Recording => selectedMode = "ask"

====
